---- MODULE Spec2Model ----
(***************************************************************************)
(* A model of the iiko API client (client.ts, errors.ts): the session      *)
(* state kept by IikoClient, the requests it dispatches through its axios  *)
(* instance, and the classification of failed requests by handleError.     *)
(***************************************************************************)
EXTENDS Integers, Sequences, FiniteSets, TLC

(***************************************************************************)
(* Bounds of the model.                                                    *)
(***************************************************************************)
\* the largest number of requests in flight at once
MaxInFlight == 2

(***************************************************************************)
(* JavaScript values.  An optional value is the empty tuple (undefined)    *)
(* or a one-element tuple.  A string handled character by character (the   *)
(* API key, a header value) is a sequence of one-character strings.        *)
(***************************************************************************)
Undefined == <<>>

Some(x) == <<x>>

IsDefined(o) == o # Undefined

\* the values the accessToken field and a response body can hold
Null == <<"null">>

Str(s) == <<"string", s>>

\* the body {correlationId: c, token: t}
Obj(c, t) == <<"object", c, t>>

\* JavaScript truthiness of such a value: null and "" are falsy
Truthy(v) == v[1] = "object" \/ (v[1] = "string" /\ v[2] # "")

\* the string a template literal `${v}` produces
TemplateString(v) ==
  IF v[1] = "string" THEN v[2]
  ELSE IF v[1] = "object" THEN "[object Object]"
  ELSE "null"

\* a JavaScript number: an integer or NaN
Num(n) == [nan |-> FALSE, val |-> n]

NaN == [nan |-> TRUE, val |-> 0]

WhiteSpace == {" ", "\t", "\n"}

DigitChars == <<"0", "1", "2", "3", "4", "5", "6", "7", "8", "9">>

IsDigit(c) == \E d \in 1..10 : DigitChars[d] = c

DigitValue(c) == (CHOOSE d \in 1..10 : DigitChars[d] = c) - 1

RECURSIVE TrimStart(_)
TrimStart(s) ==
  IF s # <<>> /\ Head(s) \in WhiteSpace THEN TrimStart(Tail(s)) ELSE s

RECURSIVE TrimEnd(_)
TrimEnd(s) ==
  IF s # <<>> /\ s[Len(s)] \in WhiteSpace
  THEN TrimEnd(SubSeq(s, 1, Len(s) - 1))
  ELSE s

\* String.prototype.trim
Trim(s) == TrimEnd(TrimStart(s))

\* the value of the longest prefix of s made of digits, read after acc
RECURSIVE DigitsValue(_, _)
DigitsValue(s, acc) ==
  IF s # <<>> /\ IsDigit(Head(s))
  THEN DigitsValue(Tail(s), 10 * acc + DigitValue(Head(s)))
  ELSE acc

\* parseInt(s, 10): leading white space is skipped, a sign is read, then
\* the longest run of digits; with no digit the result is NaN.
ParseIntDigits(s, sign) ==
  IF s # <<>> /\ IsDigit(Head(s)) THEN Num(sign * DigitsValue(s, 0)) ELSE NaN

parseInt(s) ==
  LET t == TrimStart(s)
  IN IF t # <<>> /\ Head(t) = "-" THEN ParseIntDigits(Tail(t), -1)
     ELSE IF t # <<>> /\ Head(t) = "+" THEN ParseIntDigits(Tail(t), 1)
     ELSE ParseIntDigits(t, 1)

(***************************************************************************)
(* errors.ts: the three error classes.  An error is a record; a field the  *)
(* class does not have, or that was given undefined, is Undefined.         *)
(***************************************************************************)
IikoApiError(message, statusCode, errorCode, response) ==
  [name |-> "IikoApiError", message |-> message, statusCode |-> statusCode,
   errorCode |-> errorCode, response |-> response, retryAfter |-> Undefined]

IikoAuthError(message, response) ==
  [IikoApiError(message, 401, Some("AUTH_ERROR"), response)
     EXCEPT !.name = "IikoAuthError"]

IikoRateLimitError(message, retryAfter, response) ==
  [IikoApiError(message, 429, Some("RATE_LIMIT"), response)
     EXCEPT !.name = "IikoRateLimitError", !.retryAfter = retryAfter]

\* the plain Error the constructor throws; it has no statusCode field, which
\* is written 0 here (no HTTP status is 0)
PlainError(message) ==
  [name |-> "Error", message |-> message, statusCode |-> 0,
   errorCode |-> Undefined, response |-> Undefined, retryAfter |-> Undefined]

(***************************************************************************)
(* client.ts: handleError.  An AxiosError is                               *)
(*   [response |-> optional [status, headers, data], message |-> optional] *)
(* where headers is [retryAfter |-> optional character sequence] and data  *)
(* is an optional [errorCode |-> optional, message |-> optional].          *)
(***************************************************************************)
\* error.response?.status ?? 500
ErrorStatusAlways500(error) == 500

ErrorStatusDefault0(error) ==
  IF IsDefined(error.response) THEN error.response[1].status ELSE 0

ErrorStatus(error) ==
  IF IsDefined(error.response) THEN error.response[1].status ELSE 500

\* error.response?.data
ErrorData(error) ==
  IF IsDefined(error.response) THEN error.response[1].data ELSE Undefined

\* data?.message
DataMessage(data) == IF IsDefined(data) THEN data[1].message ELSE Undefined

\* data?.errorCode
DataErrorCode(data) == IF IsDefined(data) THEN data[1].errorCode ELSE Undefined

\* data?.message ?? error.message ?? "An unknown error occurred"
ErrorMessageOrOr(error) ==
  LET m == DataMessage(ErrorData(error))
  IN IF IsDefined(m) /\ m[1] # "" THEN m[1]
     ELSE IF IsDefined(error.message) /\ error.message[1] # ""
          THEN error.message[1]
          ELSE "An unknown error occurred"

ErrorMessage(error) ==
  LET m == DataMessage(ErrorData(error))
  IN IF IsDefined(m) THEN m[1]
     ELSE IF IsDefined(error.message) THEN error.message[1]
          ELSE "An unknown error occurred"

\* error.response?.headers["retry-after"]; the branch is taken at status
\* 429 only, where the response exists
RetryAfterHeader(error) == error.response[1].headers.retryAfter

\* retryAfter ? parseInt(retryAfter, 10) : undefined
\* (a header value is truthy unless it is the empty string)
RetryAfterNoZero(error) ==
  LET h == RetryAfterHeader(error)
  IN IF IsDefined(h) /\ h[1] # <<>> /\ parseInt(h[1]) # Num(0)
     THEN Some(parseInt(h[1]))
     ELSE Undefined

RetryAfter(error) ==
  LET h == RetryAfterHeader(error)
  IN IF IsDefined(h) /\ h[1] # <<>> THEN Some(parseInt(h[1])) ELSE Undefined

handleErrorNo401(error) ==
  IF ErrorStatus(error) = 429
  THEN IikoRateLimitError(ErrorMessage(error), RetryAfter(error),
                          ErrorData(error))
  ELSE IikoApiError(ErrorMessage(error), ErrorStatus(error),
                    DataErrorCode(ErrorData(error)), ErrorData(error))

handleErrorNo429(error) ==
  IF ErrorStatus(error) = 401
  THEN IikoAuthError(ErrorMessage(error), ErrorData(error))
  ELSE IikoApiError(ErrorMessage(error), ErrorStatus(error),
                    DataErrorCode(ErrorData(error)), ErrorData(error))

handleError(error) ==
  IF ErrorStatus(error) = 401
  THEN IikoAuthError(ErrorMessage(error), ErrorData(error))
  ELSE IF ErrorStatus(error) = 429
  THEN IikoRateLimitError(ErrorMessage(error), RetryAfter(error),
                          ErrorData(error))
  ELSE IikoApiError(ErrorMessage(error), ErrorStatus(error),
                    DataErrorCode(ErrorData(error)), ErrorData(error))

(***************************************************************************)
(* The inputs: constructor arguments, request bodies, and what the         *)
(* transport answers.                                                      *)
(***************************************************************************)
DEFAULT_BASE_URL == "https://api-ru.iiko.services"

DEFAULT_TIMEOUT == 30000

\* API keys given to the constructor: empty, blank, plain, padded
Keys == {<<>>, <<" ">>, <<" ", "\t", " ">>, <<"k">>, <<" ", "k", " ">>}

\* IikoClientOptions
OptionsSet ==
  {[baseUrl |-> Undefined, timeout |-> Undefined],
   [baseUrl |-> Some("https://custom-api.example.com"),
    timeout |-> Some(60000)]}

\* a JSON object is the set of its <<field, value>> pairs
EmptyObject == {}

\* GetOrganizationsRequest arguments: none, {}, or filters
OrganizationsRequests ==
  {Undefined, Some(EmptyObject),
   Some({<<"organizationIds", "org-1">>, <<"returnAdditionalInfo", "true">>,
         <<"includeDisabled", "false">>})}

\* GetMenuRequest and GetMenuByIdRequest arguments
MenuRequest == {<<"organizationIds", "org-1">>}

MenuByIdRequest ==
  {<<"externalMenuId", "67964">>, <<"organizationIds", "org-1">>}

\* a menu document: category -> item -> item size -> price, with null-valued
\* optional fields
MenuDocument ==
  {<<"id", "67964">>, <<"name", "ZazaGo">>, <<"buttonImageUrl", Null>>,
   <<"itemCategories",
     {<<"name", "Main dishes">>,
      <<"items",
        {<<"sku", "00007">>,
         <<"itemSizes",
           {<<"sizeCode", Null>>, <<"prices", {<<"price", "3000">>}>>}>>}>>}>>}

\* 2xx bodies of the resource endpoints
ResourceBodies ==
  {{<<"correlationId", "test-correlation-id">>,
    <<"organizations", "org-1,org-2">>},
   {<<"correlationId", "test-id">>, <<"organizations", "">>},
   MenuDocument}

\* 2xx bodies of the authentication endpoint: a plain string (client.test.ts),
\* the empty string, or the record {correlationId, token} (the richer shape)
AuthBodies == {Str("T1"), Str("T2"), Str(""), Obj("C1", "T1")}

\* ApiErrorResponse bodies, and no body
ErrorBodies ==
  {Undefined} \cup
  {Some([errorCode |-> c, message |-> m]) :
     c \in {Undefined, Some("E1")},
     m \in {Undefined, Some(""), Some("Internal server error")}}

\* retry-after header values: absent, "60", "0", "", a date, "12s", " 7",
\* "-5", "1.5"
RetryAfterHeaders ==
  {Undefined, Some(<<"6", "0">>), Some(<<"0">>), Some(<<>>),
   Some(<<"W", "e", "d", ",">>), Some(<<"1", "2", "s">>), Some(<<" ", "7">>),
   Some(<<"-", "5">>), Some(<<"1", ".", "5">>)}

\* statuses axios rejects (validateStatus accepts 2xx only)
ErrorStatuses == {400, 401, 429, 500}

\* the AxiosError of a non-2xx response
ResponseError(status, retryAfter, data, message) ==
  [response |-> Some([status |-> status,
                      headers |-> [retryAfter |-> retryAfter],
                      data |-> data]),
   message |-> message]

\* the AxiosError of a request that got no response: connection failure,
\* expiry of the configured timeout, or an error without a message
NoResponseErrors ==
  {[response |-> Undefined, message |-> m] :
     m \in {Undefined, Some("Network Error"),
            Some("timeout of 30000ms exceeded")}}

\* every failure the transport can report
AllErrors ==
  {ResponseError(s, h, d, m) :
     s \in ErrorStatuses, h \in RetryAfterHeaders, d \in ErrorBodies,
     m \in {Undefined, Some("Request failed with status code")}}
  \cup NoResponseErrors

\* one failure of each kind, for the runs that explore interleavings
CoreErrors ==
  {ResponseError(401, Undefined,
                 Some([errorCode |-> Undefined,
                       message |-> Some("Invalid API key")]),
                 Some("Request failed with status code")),
   ResponseError(429, Some(<<"6", "0">>),
                 Some([errorCode |-> Undefined,
                       message |-> Some("Rate limit exceeded")]),
                 Some("Request failed with status code")),
   ResponseError(500, Undefined,
                 Some([errorCode |-> Undefined,
                       message |-> Some("Internal server error")]),
                 Some("Request failed with status code")),
   [response |-> Undefined, message |-> Some("timeout of 30000ms exceeded")]}

(***************************************************************************)
(* The state.                                                              *)
(***************************************************************************)
VARIABLES
  given,        \* the arguments the constructor was called with
  client,       \* "none" (the constructor threw) or "constructed"
  apiKey,       \* IikoClient.apiKey
  httpClient,   \* the configuration of the axios instance
  accessToken,  \* IikoClient.accessToken
  inflight,     \* the requests sent and not yet answered, oldest first
  succeeded,    \* an authenticate() call has succeeded on this client
  last          \* the call settled last, since the last call was issued

vars == <<given, client, apiKey, httpClient, accessToken, inflight, succeeded, last>>

\* no call has settled since the last call was issued
NoOutcome ==
  [op |-> "", outcome |-> "none", request |-> Undefined,
   response |-> Undefined, failure |-> Undefined, value |-> Undefined,
   error |-> Undefined]

\* a call that threw or was rejected before any request was sent
Thrown(op, error) ==
  [NoOutcome EXCEPT !.op = op, !.outcome = "rejected", !.error = Some(error)]

\* a call whose request was answered 2xx with body data, returning value
Resolved(request, data, value) ==
  [NoOutcome EXCEPT !.op = request.op, !.outcome = "resolved",
                    !.request = Some(request), !.response = Some(data),
                    !.value = Some(value)]

\* a call whose request failed with the AxiosError failure
Rejected(request, failure, error) ==
  [NoOutcome EXCEPT !.op = request.op, !.outcome = "rejected",
                    !.request = Some(request), !.failure = Some(failure),
                    !.error = Some(error)]

\* the sequence s without its i-th element
Remove(s, i) == SubSeq(s, 1, i - 1) \o SubSeq(s, i + 1, Len(s))

(***************************************************************************)
(* client.ts: the constructor.  It runs once, on the arguments given.      *)
(***************************************************************************)
\* !apiKey || apiKey.trim() === ""
apiKeyMissingNoTrim(key) == key = <<>>

apiKeyMissing(key) == key = <<>> \/ Trim(key) = <<>>

constructorTrims(key, options) ==
  /\ given = [key |-> key, options |-> options]
  /\ accessToken = Null
  /\ inflight = <<>>
  /\ succeeded = FALSE
  /\ IF apiKeyMissing(key)
     THEN /\ client = "none"
          /\ apiKey = <<>>
          /\ httpClient = Undefined
          /\ last = Thrown("constructor", PlainError("API key is required"))
     ELSE /\ client = "constructed"
          /\ apiKey = Trim(key)
          /\ httpClient =
               Some([baseURL |-> IF IsDefined(options.baseUrl)
                                 THEN options.baseUrl[1]
                                 ELSE DEFAULT_BASE_URL,
                     timeout |-> IF IsDefined(options.timeout)
                                 THEN options.timeout[1]
                                 ELSE DEFAULT_TIMEOUT,
                     contentType |-> "application/json"])
          /\ last = NoOutcome

constructor(key, options) ==
  /\ given = [key |-> key, options |-> options]
  /\ accessToken = Null
  /\ inflight = <<>>
  /\ succeeded = FALSE
  /\ IF apiKeyMissing(key)
     THEN /\ client = "none"
          /\ apiKey = <<>>
          /\ httpClient = Undefined
          /\ last = Thrown("constructor", PlainError("API key is required"))
     ELSE /\ client = "constructed"
          /\ apiKey = key
          /\ httpClient =
               Some([baseURL |-> IF IsDefined(options.baseUrl)
                                 THEN options.baseUrl[1]
                                 ELSE DEFAULT_BASE_URL,
                     timeout |-> IF IsDefined(options.timeout)
                                 THEN options.timeout[1]
                                 ELSE DEFAULT_TIMEOUT,
                     contentType |-> "application/json"])
          /\ last = NoOutcome

Init == \E key \in Keys, options \in OptionsSet : constructor(key, options)

(***************************************************************************)
(* client.ts: the public reads.                                            *)
(***************************************************************************)
isAuthenticatedNotUndefined == accessToken # Undefined

isAuthenticated == accessToken # Null

getAccessToken == accessToken

\* a synchronous call that returned value
Returned(op, value) ==
  [NoOutcome EXCEPT !.op = op, !.outcome = "returned", !.value = Some(value)]

\* a caller reads isAuthenticated()
readIsAuthenticated ==
  /\ client = "constructed"
  /\ last' = Returned("isAuthenticated", isAuthenticated)
  /\ UNCHANGED <<given, client, apiKey, httpClient, accessToken, inflight,
                 succeeded>>

\* a caller reads getAccessToken()
readAccessTokenConsumes ==
  /\ client = "constructed"
  /\ last' = Returned("getAccessToken", getAccessToken)
  /\ accessToken' = Null
  /\ UNCHANGED <<given, client, apiKey, httpClient, inflight, succeeded>>

readAccessToken ==
  /\ client = "constructed"
  /\ last' = Returned("getAccessToken", getAccessToken)
  /\ UNCHANGED <<given, client, apiKey, httpClient, accessToken, inflight,
                 succeeded>>

(***************************************************************************)
(* client.ts: authenticate.  The call sends its request and suspends; it   *)
(* resumes when the transport answers.                                     *)
(***************************************************************************)
\* httpClient.post("/api/1/access_token", {apiLogin: this.apiKey})
AccessTokenRequest ==
  [op |-> "authenticate", method |-> "POST", url |-> "/api/1/access_token",
   data |-> Some({<<"apiLogin", apiKey>>}), Authorization |-> Undefined]

authenticateWithBearer ==
  /\ client = "constructed"
  /\ Len(inflight) < MaxInFlight
  /\ inflight' = Append(inflight,
       [AccessTokenRequest EXCEPT
          !.Authorization =
             IF Truthy(accessToken)
             THEN Some("Bearer " \o TemplateString(accessToken))
             ELSE Undefined])
  /\ last' = NoOutcome
  /\ UNCHANGED <<given, client, apiKey, httpClient, accessToken, succeeded>>

authenticate ==
  /\ client = "constructed"
  /\ Len(inflight) < MaxInFlight
  /\ inflight' = Append(inflight, AccessTokenRequest)
  /\ last' = NoOutcome
  /\ UNCHANGED <<given, client, apiKey, httpClient, accessToken, succeeded>>

\* a 2xx answer: the body is stored whole and returned as the token
authenticateResolved(i, data) ==
  /\ i \in 1..Len(inflight)
  /\ inflight[i].op = "authenticate"
  /\ inflight' = Remove(inflight, i)
  /\ accessToken' = data
  /\ last' = Resolved(inflight[i], data, [token |-> data])
  /\ succeeded' = TRUE
  /\ UNCHANGED <<given, client, apiKey, httpClient>>

\* a failure: the interceptor throws what handleError builds, and the
\* assignment to accessToken is not reached
authenticateRejectedClearsToken(i, error) ==
  /\ i \in 1..Len(inflight)
  /\ inflight[i].op = "authenticate"
  /\ inflight' = Remove(inflight, i)
  /\ last' = Rejected(inflight[i], error, handleError(error))
  /\ accessToken' = Null
  /\ UNCHANGED <<given, client, apiKey, httpClient, succeeded>>

authenticateRejected(i, error) ==
  /\ i \in 1..Len(inflight)
  /\ inflight[i].op = "authenticate"
  /\ inflight' = Remove(inflight, i)
  /\ last' = Rejected(inflight[i], error, handleError(error))
  /\ UNCHANGED <<given, client, apiKey, httpClient, accessToken, succeeded>>

(***************************************************************************)
(* client.ts: the protected helpers and the resource calls.                *)
(***************************************************************************)
\* the guard passes when the stored token is truthy
ensureAuthenticatedAlways == TRUE

ensureAuthenticatedOrPending ==
  \/ Truthy(accessToken)
  \/ \E i \in 1..Len(inflight) : inflight[i].op = "authenticate"

ensureAuthenticated == Truthy(accessToken)

getAuthHeaders == "Bearer " \o TemplateString(accessToken)

\* what the guard throws
NotAuthenticatedErrorOwnStatus ==
  IikoApiError("Not authenticated. Call authenticate() first.", 400,
               Some("NOT_AUTHENTICATED"), Undefined)

NotAuthenticatedError ==
  IikoAuthError("Not authenticated. Call authenticate() first.", Undefined)

\* the guard, then the request; op names the public call made
dispatch(op, method, endpoint, data) ==
  /\ client = "constructed"
  /\ IF ~ensureAuthenticated
     THEN /\ last' = Thrown(op, NotAuthenticatedError)
          /\ UNCHANGED inflight
     ELSE /\ Len(inflight) < MaxInFlight
          /\ inflight' = Append(inflight,
               [op |-> op, method |-> method, url |-> endpoint,
                data |-> data, Authorization |-> Some(getAuthHeaders)])
          /\ last' = NoOutcome
  /\ UNCHANGED <<given, client, apiKey, httpClient, accessToken, succeeded>>

get(endpoint) == dispatch("get", "GET", endpoint, Undefined)

post(op, endpoint, data) == dispatch(op, "POST", endpoint, data)

\* request defaults to {} when the argument is undefined
getOrganizationsWithDefaults(request) ==
  post("getOrganizations", "/api/1/organizations",
       IF IsDefined(request)
       THEN request
       ELSE Some({<<"returnAdditionalInfo", "false">>,
                  <<"includeDisabled", "false">>}))

getOrganizations(request) ==
  post("getOrganizations", "/api/1/organizations",
       IF IsDefined(request) THEN request ELSE Some(EmptyObject))

\* the menu calls: each posts its request record to its endpoint
getMenu(request) == post("getMenu", "/api/2/menu", Some(request))

getMenuById(request) == post("getMenuById", "/api/2/menu/by_id", Some(request))

\* a 2xx answer to a resource request: the body is returned as it is
requestResolvedInOrder(i, data) ==
  /\ i = 1
  /\ i \in 1..Len(inflight)
  /\ inflight[i].op # "authenticate"
  /\ inflight' = Remove(inflight, i)
  /\ last' = Resolved(inflight[i], data, data)
  /\ UNCHANGED <<given, client, apiKey, httpClient, accessToken, succeeded>>

requestResolved(i, data) ==
  /\ i \in 1..Len(inflight)
  /\ inflight[i].op # "authenticate"
  /\ inflight' = Remove(inflight, i)
  /\ last' = Resolved(inflight[i], data, data)
  /\ UNCHANGED <<given, client, apiKey, httpClient, accessToken, succeeded>>

\* a failure of a resource request
requestRejectedInvalidates(i, error) ==
  /\ i \in 1..Len(inflight)
  /\ inflight[i].op # "authenticate"
  /\ inflight' = Remove(inflight, i)
  /\ last' = Rejected(inflight[i], error, handleError(error))
  /\ accessToken' = IF ErrorStatus(error) = 401 THEN Null ELSE accessToken
  /\ UNCHANGED <<given, client, apiKey, httpClient, succeeded>>

requestRejectedReauthenticates(i, error) ==
  /\ i \in 1..Len(inflight)
  /\ inflight[i].op # "authenticate"
  /\ IF ErrorStatus(error) = 401
     THEN /\ last' = NoOutcome
          /\ inflight' = Append(Remove(inflight, i), AccessTokenRequest)
     ELSE /\ last' = Rejected(inflight[i], error, handleError(error))
          /\ inflight' = Remove(inflight, i)
  /\ UNCHANGED <<given, client, apiKey, httpClient, accessToken, succeeded>>

requestRejectedTokenAware(i, error) ==
  /\ i \in 1..Len(inflight)
  /\ inflight[i].op # "authenticate"
  /\ inflight' = Remove(inflight, i)
  /\ last' = Rejected(inflight[i], error,
               IF ErrorStatus(error) = 401
               THEN IikoAuthError("Access token rejected", ErrorData(error))
               ELSE handleError(error))
  /\ UNCHANGED <<given, client, apiKey, httpClient, accessToken, succeeded>>

requestRejected(i, error) ==
  /\ i \in 1..Len(inflight)
  /\ inflight[i].op # "authenticate"
  /\ inflight' = Remove(inflight, i)
  /\ last' = Rejected(inflight[i], error, handleError(error))
  /\ UNCHANGED <<given, client, apiKey, httpClient, accessToken, succeeded>>

(***************************************************************************)
(* The specifications.                                                     *)
(***************************************************************************)
\* the calls a caller (or a subclass, for get and post) can make
Calls ==
  \/ authenticate
  \/ \E request \in OrganizationsRequests : getOrganizations(request)
  \/ getMenu(MenuRequest)
  \/ getMenuById(MenuByIdRequest)
  \/ get("/api/1/any")
  \/ post("post", "/api/1/any", Some(EmptyObject))
  \/ readIsAuthenticated
  \/ readAccessToken

\* the answers of the transport, its failures drawn from errors
Answers(errors) ==
  \/ \E i \in 1..MaxInFlight, data \in AuthBodies : authenticateResolved(i, data)
  \/ \E i \in 1..MaxInFlight, error \in errors : authenticateRejected(i, error)
  \/ \E i \in 1..MaxInFlight, data \in ResourceBodies : requestResolved(i, data)
  \/ \E i \in 1..MaxInFlight, error \in errors : requestRejected(i, error)

\* concurrent calls, one failure of each kind
Next == Calls \/ Answers(CoreErrors)

Spec == Init /\ [][Next]_vars

\* one call at a time, every failure
NextErr == (inflight = <<>> /\ Calls) \/ Answers(AllErrors)

SpecErr == Init /\ [][NextErr]_vars

(***************************************************************************)
(* What the properties below read from the state.                          *)
(***************************************************************************)
ResourceOps == {"getOrganizations", "getMenu", "getMenuById", "get", "post"}

\* the call settled last was rejected by the interceptor
Failed == last.outcome = "rejected" /\ IsDefined(last.failure)

\* ... on a response, of status s
FailedWithResponse == Failed /\ IsDefined(last.failure[1].response)

FailedWithStatus(s) ==
  FailedWithResponse /\ last.failure[1].response[1].status = s

\* the response, its body and its retry-after header, as the transport gave
\* them
LastResponse == last.failure[1].response[1]

LastBody == LastResponse.data

LastRetryAfterHeader == LastResponse.headers.retryAfter

LastError == last.error[1]

\* the authenticate() call settled last got a 2xx answer
AuthenticateSucceeded == last.op = "authenticate" /\ last.outcome = "resolved"

\* the token a 2xx authentication body carries
BodyToken(data) == IF data[1] = "object" THEN data[3] ELSE data[2]

\* s is one or more decimal digits
IsDigits(s) == s # <<>> /\ \A k \in 1..Len(s) : IsDigit(s[k])

\* the integer whose decimal digits are s, from the last digit backwards
RECURSIVE DecimalValue(_)
DecimalValue(s) ==
  IF s = <<>> THEN 0
  ELSE 10 * DecimalValue(SubSeq(s, 1, Len(s) - 1)) + DigitValue(s[Len(s)])

\* s starts, after white space and a sign, with a digit
StartsWithInteger(s) ==
  LET t == TrimStart(s)
      u == IF t # <<>> /\ Head(t) \in {"+", "-"} THEN Tail(t) ELSE t
  IN u # <<>> /\ IsDigit(Head(u))

(***************************************************************************)
(* C1: while no authenticate() has succeeded on the client, every resource *)
(* call (getOrganizations, get, post) is rejected with the local           *)
(* IikoAuthError "Not authenticated. Call authenticate() first." and no    *)
(* request of a resource call is sent: the only requests in flight are     *)
(* those of authenticate().                                                *)
(***************************************************************************)
C1_GuardBeforeAuthentication ==
  ~succeeded =>
    /\ \A i \in 1..Len(inflight) : inflight[i].op = "authenticate"
    /\ last.op \in ResourceOps =>
         /\ last.outcome = "rejected"
         /\ last.request = Undefined
         /\ LastError.name = "IikoAuthError"
         /\ LastError.message = "Not authenticated. Call authenticate() first."

C1_Witness ==
  /\ ~succeeded
  /\ last.op = "getOrganizations"
  /\ last.outcome = "rejected"
  /\ inflight = <<>>

(***************************************************************************)
(* C2: after an authenticate() call answered 2xx with a body carrying the  *)
(* non-empty token T, isAuthenticated() is true, getAccessToken() is the   *)
(* string T and the returned record's token is the string T.               *)
(***************************************************************************)
C2_TokenStored ==
  (AuthenticateSucceeded /\ BodyToken(last.response[1]) # "") =>
    /\ isAuthenticated
    /\ getAccessToken = Str(BodyToken(last.response[1]))
    /\ last.value[1].token = Str(BodyToken(last.response[1]))

(***************************************************************************)
(* C3: when the authentication endpoint answers 2xx with the body          *)
(* {correlationId: C, token: T}, authenticate() returns a record with      *)
(* token T and correlationId C, and getAccessToken() is then the string T. *)
(***************************************************************************)
C3_RicherShape ==
  (AuthenticateSucceeded /\ last.response[1][1] = "object") =>
    /\ last.value[1].token = Str(last.response[1][3])
    /\ "correlationId" \in DOMAIN last.value[1]
    /\ last.value[1].correlationId = last.response[1][2]
    /\ getAccessToken = Str(last.response[1][3])

(***************************************************************************)
(* C4: the step in which an authenticate() call fails (a non-2xx status or *)
(* no response) leaves the stored token as it was: an unauthenticated      *)
(* client stays unauthenticated, a client holding T still holds T.         *)
(***************************************************************************)
C4_FailedAuthenticateKeepsToken ==
  [][(/\ Len(inflight') < Len(inflight)
      /\ last'.op = "authenticate"
      /\ last'.outcome = "rejected")
     => /\ accessToken' = accessToken
        /\ isAuthenticated' = isAuthenticated]_vars

C4_Witness ==
  /\ last.op = "authenticate"
  /\ Failed
  /\ ~IsDefined(last.failure[1].response)
  /\ accessToken = Str("T1")

(***************************************************************************)
(* C5: a request answered with status 401, by authenticate() or by a       *)
(* resource call, is rejected with an IikoAuthError of statusCode 401 and  *)
(* errorCode "AUTH_ERROR", whatever errorCode the body carries, and with   *)
(* the response body attached.                                             *)
(***************************************************************************)
C5_Status401 ==
  FailedWithStatus(401) =>
    /\ LastError.name = "IikoAuthError"
    /\ LastError.statusCode = 401
    /\ LastError.errorCode = Some("AUTH_ERROR")
    /\ LastError.response = LastBody

C5_Witness ==
  /\ FailedWithStatus(401)
  /\ last.op = "getOrganizations"
  /\ IsDefined(LastBody)
  /\ LastBody[1].errorCode = Some("E1")
  /\ LastError.errorCode = Some("AUTH_ERROR")

(***************************************************************************)
(* C6: a request answered with status 429 is rejected with an              *)
(* IikoRateLimitError of statusCode 429 and errorCode "RATE_LIMIT"; when   *)
(* the retry-after header is the decimal digits of n (0 included),         *)
(* retryAfter is n; when there is no retry-after header, retryAfter is     *)
(* absent.                                                                 *)
(***************************************************************************)
C6_Status429 ==
  FailedWithStatus(429) =>
    /\ LastError.name = "IikoRateLimitError"
    /\ LastError.statusCode = 429
    /\ LastError.errorCode = Some("RATE_LIMIT")
    /\ (IsDefined(LastRetryAfterHeader) /\ IsDigits(LastRetryAfterHeader[1]))
         => LastError.retryAfter =
              Some(Num(DecimalValue(LastRetryAfterHeader[1])))
    /\ ~IsDefined(LastRetryAfterHeader) => LastError.retryAfter = Undefined

C6_Witness ==
  /\ FailedWithStatus(429)
  /\ LastRetryAfterHeader = Some(<<"0">>)
  /\ LastError.retryAfter = Some(Num(0))

(***************************************************************************)
(* C7: for a 429 response whose retry-after header is present and does not *)
(* start with an integer (a date, other text), retryAfter is absent.       *)
(***************************************************************************)
C7_UnparseableRetryAfter ==
  (/\ FailedWithStatus(429)
   /\ IsDefined(LastRetryAfterHeader)
   /\ ~StartsWithInteger(LastRetryAfterHeader[1]))
  => LastError.retryAfter = Undefined

(***************************************************************************)
(* C8: a request answered with a non-2xx status s other than 401 and 429   *)
(* is rejected with an IikoApiError whose statusCode is s, whose errorCode *)
(* is the body's errorCode (absent if the body has none), whose message is *)
(* the body's message when it has one, and with the body attached.         *)
(***************************************************************************)
C8_OtherStatus ==
  (FailedWithResponse /\ LastResponse.status \notin {401, 429}) =>
    /\ LastError.name = "IikoApiError"
    /\ LastError.statusCode = LastResponse.status
    /\ LastError.errorCode =
         (IF IsDefined(LastBody) THEN LastBody[1].errorCode ELSE Undefined)
    /\ (IsDefined(LastBody) /\ IsDefined(LastBody[1].message))
         => LastError.message = LastBody[1].message[1]
    /\ LastError.response = LastBody

C8_Witness ==
  /\ FailedWithStatus(500)
  /\ IsDefined(LastBody)
  /\ LastBody[1].message = Some("Internal server error")
  /\ LastError.statusCode = 500
  /\ LastError.message = "Internal server error"

(***************************************************************************)
(* C9: a request that ends with no response (connection failure, expiry of *)
(* the timeout) settles its call: the call is rejected with an             *)
(* IikoApiError of statusCode 500, not with the authentication or          *)
(* rate-limit class, and its request is no longer in flight.               *)
(***************************************************************************)
C9_NoResponse ==
  (last.outcome # "none" /\ IsDefined(last.failure)
     /\ ~IsDefined(last.failure[1].response)) =>
    /\ last.outcome = "rejected"
    /\ LastError.name = "IikoApiError"
    /\ LastError.statusCode = 500
    /\ inflight = <<>>

C9_Witness ==
  /\ Failed
  /\ last.failure[1] =
       [response |-> Undefined, message |-> Some("timeout of 30000ms exceeded")]
  /\ LastError.statusCode = 500

(***************************************************************************)
(* C10: the message of every failed request is the message of the error    *)
(* body if it has one, otherwise the transport's message if it has one,    *)
(* otherwise a literal fallback text, for all three error classes.         *)
(* The claim as written gives the fallback a final full stop; the amended  *)
(* claim gives the text the code uses, "An unknown error occurred".        *)
(***************************************************************************)
MessageByPrecedence(fallback) ==
  LET body == IF IsDefined(last.failure[1].response) THEN LastBody
              ELSE Undefined
  IN IF IsDefined(body) /\ IsDefined(body[1].message) THEN body[1].message[1]
     ELSE IF IsDefined(last.failure[1].message) THEN last.failure[1].message[1]
     ELSE fallback

C10_MessagePrecedenceAsWritten ==
  Failed => LastError.message = MessageByPrecedence("An unknown error occurred.")

C10_MessagePrecedence ==
  Failed => LastError.message = MessageByPrecedence("An unknown error occurred")

C10_Witness ==
  /\ FailedWithStatus(429)
  /\ ~IsDefined(last.failure[1].message)
  /\ IsDefined(LastBody)
  /\ ~IsDefined(LastBody[1].message)
  /\ LastError.message = "An unknown error occurred"

(***************************************************************************)
(* What the step properties below read from a step.                        *)
(***************************************************************************)
\* the token the client holds: the one its last successful authentication
\* response carried
HeldToken == BodyToken(accessToken)

\* the step sends one request, after those in flight
Dispatched ==
  /\ Len(inflight') = Len(inflight) + 1
  /\ SubSeq(inflight', 1, Len(inflight)) = inflight

NewRequest == inflight'[Len(inflight')]

\* the step settles the call of the i-th request in flight
SettledAt(i) ==
  /\ inflight' = Remove(inflight, i)
  /\ last'.outcome \in {"resolved", "rejected"}
  /\ last'.request = Some(inflight[i])

Settled == \E i \in 1..Len(inflight) : SettledAt(i)

\* the credentials of the requests in flight, oldest first
Credentials == [i \in 1..Len(inflight) |-> inflight[i].Authorization]

(***************************************************************************)
(* C11: a resource call dispatched while the client holds token T sends    *)
(* Authorization: Bearer T, so calls dispatched after a later successful   *)
(* authenticate() carry the new token; a request in flight keeps the       *)
(* credential it was dispatched with.                                      *)
(***************************************************************************)
C11_BearerOfHeldToken ==
  [][/\ (Dispatched /\ NewRequest.op \in ResourceOps)
          => NewRequest.Authorization = Some("Bearer " \o HeldToken)
     /\ \/ Credentials' = Credentials
        \/ \E i \in 1..Len(inflight) : Credentials' = Remove(Credentials, i)
        \/ /\ Len(inflight') = Len(inflight) + 1
           /\ SubSeq(Credentials', 1, Len(inflight)) = Credentials]_vars

(***************************************************************************)
(* C12: constructing a client with the empty string or with a string of    *)
(* white space only, of any length, throws the plain Error "API key is     *)
(* required": no client results, no request is sent, and the error is none *)
(* of the API error classes.                                               *)
(***************************************************************************)
\* s is empty or made of white space only
IsBlank(s) == \A k \in 1..Len(s) : s[k] \in {" ", "\t", "\n"}

C12_BlankKeyRejected ==
  IsBlank(given.key) =>
    /\ client = "none"
    /\ inflight = <<>>
    /\ last.op = "constructor"
    /\ last.outcome = "rejected"
    /\ LastError.name = "Error"
    /\ LastError.message = "API key is required"

C12_Witness ==
  /\ given.key = <<" ", "\t", " ">>
  /\ client = "none"
  /\ LastError.message = "API key is required"

(***************************************************************************)
(* C13: a client constructed with a valid credential, whatever the options *)
(* given, is unauthenticated until an authenticate() succeeds:             *)
(* isAuthenticated() is false and getAccessToken() is null.                *)
(***************************************************************************)
C13_StartsUnauthenticated ==
  (client = "constructed" /\ ~succeeded) =>
    /\ ~isAuthenticated
    /\ getAccessToken = Null
    /\ last.op = "isAuthenticated" => last.value = Some(FALSE)
    /\ last.op = "getAccessToken" => last.value = Some(Null)

C13_Witness ==
  /\ client = "constructed"
  /\ ~succeeded
  /\ given.options.timeout = Some(60000)
  /\ last.op = "isAuthenticated"
  /\ last.value = Some(FALSE)

(***************************************************************************)
(* C14: once isAuthenticated() is true it stays true, and                  *)
(* getAccessToken() is never null again, whatever calls follow and however *)
(* they are answered.                                                      *)
(***************************************************************************)
C14_NeverReverts ==
  [][isAuthenticated => (isAuthenticated' /\ getAccessToken' # Null)]_vars

C14_Witness ==
  /\ succeeded
  /\ last.op = "authenticate"
  /\ FailedWithStatus(401)
  /\ isAuthenticated

(***************************************************************************)
(* C15: only a step in which an authenticate() call succeeds changes the   *)
(* stored token; no step changes the credential or the configuration; and  *)
(* a call of isAuthenticated() or getAccessToken() sends no request.       *)
(***************************************************************************)
AuthenticateSucceeds ==
  Settled /\ last'.op = "authenticate" /\ last'.outcome = "resolved"

C15_OnlyAuthenticateWrites ==
  [][/\ ~AuthenticateSucceeds => accessToken' = accessToken
     /\ apiKey' = apiKey
     /\ httpClient' = httpClient
     /\ last'.op \in {"isAuthenticated", "getAccessToken"}
          => inflight' = inflight]_vars

C15_Witness ==
  /\ last.op = "getAccessToken"
  /\ last.value = Some(Str("T1"))
  /\ inflight # <<>>

(***************************************************************************)
(* C16: as written, the error of the local guard differs from the error of *)
(* a server 401 in its class, status or code.  As amended: the local       *)
(* guard's error has the same class, statusCode and errorCode as the error *)
(* of a server 401 (IikoAuthError, 401, "AUTH_ERROR"); it carries the      *)
(* fixed message and no response body.                                     *)
(***************************************************************************)
\* a resource call was rejected by the guard, before any request
LocalGuardRejected ==
  last.op \in ResourceOps /\ last.outcome = "rejected"
    /\ last.request = Undefined

\* the class and the machine-readable fields of an error
Kind(e) == <<e.name, e.statusCode, e.errorCode>>

C16_DistinguishableAsWritten ==
  LocalGuardRejected =>
    \A e \in AllErrors :
      (IsDefined(e.response) /\ e.response[1].status = 401)
        => Kind(LastError) # Kind(handleError(e))

C16_SameKindAsServer401 ==
  /\ (LocalGuardRejected \/ FailedWithStatus(401))
       => Kind(LastError) = <<"IikoAuthError", 401, Some("AUTH_ERROR")>>
  /\ LocalGuardRejected =>
       /\ LastError.message = "Not authenticated. Call authenticate() first."
       /\ LastError.response = Undefined

C16_Witness ==
  /\ LocalGuardRejected
  /\ last.op = "getMenu"
  /\ Kind(LastError) = <<"IikoAuthError", 401, Some("AUTH_ERROR")>>

(***************************************************************************)
(* C17: every authenticate() call is answered through a request of its own *)
(* to /api/1/access_token, also when a token is stored, and when it        *)
(* succeeds the stored token becomes the token the response carries,       *)
(* whatever token was stored before.                                       *)
(***************************************************************************)
C17_Reauthenticate ==
  [][AuthenticateSucceeds =>
       /\ last'.request[1].url = "/api/1/access_token"
       /\ getAccessToken' = Str(BodyToken(last'.response[1]))]_vars

(***************************************************************************)
(* C18: a call sends one request when it is issued and none afterwards:    *)
(* each step either sends exactly one request and leaves its call pending, *)
(* or settles exactly one call by removing its request, or leaves the      *)
(* requests in flight as they are; a resource call's request never goes to *)
(* the authentication endpoint.                                            *)
(***************************************************************************)
C18_OneRequestPerCall ==
  [][\/ /\ Dispatched
        /\ last'.outcome = "none"
        /\ (NewRequest.op \in ResourceOps)
             = (NewRequest.url # "/api/1/access_token")
     \/ Settled
     \/ inflight' = inflight]_vars

C18_Witness ==
  /\ FailedWithStatus(401)
  /\ last.op = "getOrganizations"
  /\ inflight = <<>>

(***************************************************************************)
(* C19: getOrganizations() without argument sends POST                     *)
(* /api/1/organizations with body {}, getOrganizations(r) sends r as it    *)
(* is, and on a 2xx answer the call returns the response body unchanged.   *)
(***************************************************************************)
C19_GetOrganizations ==
  [][/\ \A request \in OrganizationsRequests :
          (getOrganizations(request) /\ Dispatched) =>
            /\ NewRequest.method = "POST"
            /\ NewRequest.url = "/api/1/organizations"
            /\ NewRequest.data =
                 (IF IsDefined(request) THEN request ELSE Some(EmptyObject))
     /\ (Settled /\ last'.op = "getOrganizations"
           /\ last'.outcome = "resolved")
          => last'.value = last'.response]_vars

C19_Witness ==
  /\ last.op = "getOrganizations"
  /\ last.outcome = "resolved"
  /\ last.request[1].data = Some(EmptyObject)
  /\ last.value =
       Some({<<"correlationId", "test-correlation-id">>,
             <<"organizations", "org-1,org-2">>})

(***************************************************************************)
(* C20: getMenu(r) sends POST /api/2/menu and getMenuById(r) sends POST    *)
(* /api/2/menu/by_id, each with r as body and the held token as bearer     *)
(* credential, and each returns the 2xx body unchanged, nested records and *)
(* null-valued fields included.                                            *)
(***************************************************************************)
MenuUrl(op) == IF op = "getMenu" THEN "/api/2/menu" ELSE "/api/2/menu/by_id"

MenuArgument(op) == IF op = "getMenu" THEN MenuRequest ELSE MenuByIdRequest

C20_MenuCalls ==
  [][/\ (Dispatched /\ NewRequest.op \in {"getMenu", "getMenuById"}) =>
          /\ NewRequest.method = "POST"
          /\ NewRequest.url = MenuUrl(NewRequest.op)
          /\ NewRequest.data = Some(MenuArgument(NewRequest.op))
          /\ NewRequest.Authorization = Some("Bearer " \o HeldToken)
     /\ (Settled /\ last'.op \in {"getMenu", "getMenuById"}
           /\ last'.outcome = "resolved")
          => last'.value = last'.response]_vars

(***************************************************************************)
(* C21: every failed request is surfaced as exactly one error, whose kind  *)
(* is chosen by the response status alone, 401 first, then 429, then       *)
(* everything else: the call does not resolve, and the generic kind never  *)
(* carries status 401 or 429.                                              *)
(***************************************************************************)
\* the kind the status of the failure selects
KindByStatus ==
  IF FailedWithStatus(401) THEN "IikoAuthError"
  ELSE IF FailedWithStatus(429) THEN "IikoRateLimitError"
  ELSE "IikoApiError"

C21_OneKindByStatus ==
  IsDefined(last.failure) =>
    /\ last.outcome = "rejected"
    /\ last.value = Undefined
    /\ last.response = Undefined
    /\ IsDefined(last.error)
    /\ LastError.name = KindByStatus
    /\ LastError.name = "IikoApiError" => LastError.statusCode \notin {401, 429}
    /\ LastError.name = "IikoAuthError" => LastError.statusCode = 401
    /\ LastError.name = "IikoRateLimitError" => LastError.statusCode = 429

C21_Witness ==
  /\ FailedWithStatus(400)
  /\ last.op = "authenticate"
  /\ LastError.name = "IikoApiError"
  /\ LastError.statusCode = 400

(***************************************************************************)
(* C22: when two authenticate() calls are in flight and one of them is     *)
(* answered 2xx, the stored token becomes the token of that response,      *)
(* whichever of the two was issued first; and the stored token is always   *)
(* either null or exactly the token of a successful authentication         *)
(* response.                                                               *)
(***************************************************************************)
\* the positions of the authenticate() requests in flight
AuthenticatePending ==
  {i \in 1..Len(inflight) : inflight[i].op = "authenticate"}

\* the tokens the authentication endpoint can return
ResponseTokens == {Str(BodyToken(data)) : data \in AuthBodies}

C22_LastWriterWins ==
  [][/\ (Cardinality(AuthenticatePending) = 2 /\ AuthenticateSucceeds)
          => getAccessToken' = Str(BodyToken(last'.response[1]))
     /\ getAccessToken' \in {Null} \cup ResponseTokens]_vars

(***************************************************************************)
(* C23: every authenticate() call, the first and every later one, sends    *)
(* POST /api/1/access_token with body {apiLogin: c} where c is the         *)
(* credential exactly as given to the constructor, not trimmed; and no     *)
(* step changes the credential.                                            *)
(***************************************************************************)
C23_CredentialAsGiven ==
  [][/\ (Dispatched /\ NewRequest.op = "authenticate") =>
          /\ NewRequest.method = "POST"
          /\ NewRequest.url = "/api/1/access_token"
          /\ NewRequest.data = Some({<<"apiLogin", given.key>>})
     /\ apiKey = given.key
     /\ apiKey' = apiKey
     /\ given' = given]_vars

C23_Witness ==
  /\ given.key = <<" ", "k", " ">>
  /\ succeeded
  /\ inflight # <<>>
  /\ inflight[Len(inflight)].op = "authenticate"
  /\ inflight[Len(inflight)].data = Some({<<"apiLogin", <<" ", "k", " ">>>>})

(***************************************************************************)
(* C24: if the transport answers every request it was given, with a        *)
(* response or with the report of a failure such as the timeout, every     *)
(* call that sent a request completes, with a result or with exactly one   *)
(* error; and a call never waits for another call: whatever else is in     *)
(* flight, each request can be answered, successfully or not, at once.     *)
(***************************************************************************)
\* the transport answers the i-th request in flight
Answer(i) ==
  \/ \E data \in AuthBodies : authenticateResolved(i, data)
  \/ \E error \in CoreErrors : authenticateRejected(i, error)
  \/ \E data \in ResourceBodies : requestResolved(i, data)
  \/ \E error \in CoreErrors : requestRejected(i, error)

\* the transport leaves no request unanswered for ever: an answer takes its
\* request out of flight
SpecLive == Spec /\ \A i \in 1..MaxInFlight : WF_inflight(Answer(i))

\* the calls that send a request
RequestOps == ResourceOps \cup {"authenticate"}

\* a call op has a request in flight
Pending(op) == \E i \in 1..Len(inflight) : inflight[i].op = op

\* a call op has completed, with a result or with one error
Completed(op) ==
  /\ last.op = op
  /\ IsDefined(last.request)
  /\ \/ last.outcome = "resolved" /\ IsDefined(last.value)
          /\ last.error = Undefined
     \/ last.outcome = "rejected" /\ IsDefined(last.error)
          /\ last.value = Undefined

\* the i-th request in flight can be answered 2xx, and can fail
Answerable(i) ==
  /\ ENABLED (\/ \E data \in AuthBodies : authenticateResolved(i, data)
              \/ \E data \in ResourceBodies : requestResolved(i, data))
  /\ ENABLED (\/ \E error \in CoreErrors : authenticateRejected(i, error)
              \/ \E error \in CoreErrors : requestRejected(i, error))

C24_EveryCallCompletes ==
  /\ [](\A i \in 1..Len(inflight) : Answerable(i))
  /\ \A op \in RequestOps : Pending(op) ~> Completed(op)

C24_Witness ==
  /\ Completed("getMenuById")
  /\ last.outcome = "rejected"
  /\ Pending("authenticate")

(***************************************************************************)
(* C25: isAuthenticated() is true exactly when a resource call passes the  *)
(* guard: a resource call is rejected as not authenticated only where      *)
(* isAuthenticated() is false, and sends its request only where            *)
(* isAuthenticated() is true, whatever 2xx body the authentication         *)
(* endpoint returned, the empty string included.                           *)
(***************************************************************************)
\* this step is a resource call that the guard rejects
GuardRejects ==
  /\ last'.op \in ResourceOps
  /\ last'.outcome = "rejected"
  /\ last'.request = Undefined

C25_GuardAgreesWithIsAuthenticated ==
  [][/\ GuardRejects => ~isAuthenticated
     /\ (Dispatched /\ NewRequest.op \in ResourceOps) => isAuthenticated]_vars

(***************************************************************************)
(* C26: a resource call issued while the client's first authenticate() is  *)
(* in flight is rejected by the guard and sends no request; and when that  *)
(* authenticate() then succeeds, no request of the rejected call is sent:  *)
(* the requests in flight are the ones that were, less the one answered.   *)
(***************************************************************************)
\* a resource call is made in this step
ResourceCall ==
  \/ \E request \in OrganizationsRequests : getOrganizations(request)
  \/ getMenu(MenuRequest)
  \/ getMenuById(MenuByIdRequest)
  \/ get("/api/1/any")
  \/ post("post", "/api/1/any", Some(EmptyObject))

\* the first authenticate() of the client is in flight
FirstAuthenticatePending == ~succeeded /\ Pending("authenticate")

C26_RejectedWhileAuthenticating ==
  [][/\ (FirstAuthenticatePending /\ ResourceCall) =>
          /\ GuardRejects
          /\ LastError'.message =
               "Not authenticated. Call authenticate() first."
          /\ inflight' = inflight
     /\ (FirstAuthenticatePending /\ AuthenticateSucceeds) =>
          /\ \E i \in 1..Len(inflight) : inflight' = Remove(inflight, i)
          /\ \A k \in 1..Len(inflight') : inflight'[k].op = "authenticate"]_vars

C26_Witness ==
  /\ FirstAuthenticatePending
  /\ LocalGuardRejected
  /\ last.op = "post"

(***************************************************************************)
(* C27: authenticate() can be called in every state of a constructed       *)
(* client (here: while fewer than MaxInFlight requests are in flight), it  *)
(* is never rejected by the guard, and the request it sends carries no     *)
(* Authorization header, also when a token is stored.                      *)
(***************************************************************************)
C27_AuthenticateUnguarded ==
  [][/\ (client = "constructed" /\ Len(inflight) < MaxInFlight)
          => ENABLED authenticate
     /\ authenticate =>
          /\ Dispatched
          /\ NewRequest.op = "authenticate"
          /\ NewRequest.Authorization = Undefined
     /\ last'.op = "authenticate" => IsDefined(last'.request)
     /\ \A k \in 1..Len(inflight') :
          inflight'[k].url = "/api/1/access_token"
            => inflight'[k].Authorization = Undefined]_vars

C27_Witness ==
  /\ succeeded
  /\ Truthy(accessToken)
  /\ Len(inflight) = 2
  /\ inflight[1].Authorization # Undefined
  /\ inflight[2].op = "authenticate"
  /\ inflight[2].Authorization = Undefined

====
